---- MODULE Spec2Model ----
(***************************************************************************)
(* Code-gated data exchange server (src/server.js): an Express app over a  *)
(* Mongoose collection of exchange records.  Every route handler is an     *)
(* async function; each `await` on the store (findOne, save, deleteOne) is *)
(* a point where other requests' steps may interleave, so a handler is     *)
(* modelled as one action per store round trip.                            *)
(***************************************************************************)
EXTENDS Integers, Sequences, FiniteSets, TLC

\* ------------------------------------------------------------------ bounds
\* Number of request slots (requests handled during one run).
MaxReq == 2
\* Size of the modelled code space (the program's is 900000 codes wide).
CodeSpan == 2

\* ------------------------------------------------------- program constants
\* Lowest code generateCode can return (100000 + Math.random() * 900000).
CodeLo == 100000
\* multer's limits.fileSize, scaled from 5 GiB to a few bytes.
fileSizeLimit == 3

\* -------------------------------------------------------------- JS values
\* A JavaScript value held in a request body, a document field or a response.
\* JSON values are kept as their JSON text; a base64 string and a Buffer keep
\* their characters (sextets 0..63, 64 for '=') or bytes in `octets`.
Undefined == [kind |-> "undefined", text |-> "", octets |-> <<>>]
Json(t) == [kind |-> "json", text |-> t, octets |-> <<>>]
Base64String(s) == [kind |-> "base64", text |-> "", octets |-> s]
Buffer(b) == [kind |-> "buffer", text |-> "", octets |-> b]
Null == Json("null")

\* Absent String, Number and Date fields of a document or a response.
UndefinedStr == "undefined"
UndefinedNum == -1
UndefinedDate == 0

\* JavaScript ToBoolean, as `!data` applies it: undefined, null, false, 0 and
\* the empty string are falsy; every object, list and other string is truthy.
Falsy(v) ==
    \/ v.kind = "undefined"
    \/ v.kind = "json" /\ v.text \in {"null", "false", "0", "\"\""}
    \/ v.kind = "base64" /\ v.octets = <<>>

\* Mongoose's `required: true` on a Mixed path: the value must not be null or
\* undefined (SchemaType.prototype.checkRequired is `val != null`).
checkRequired(v) == ~(v.kind = "undefined" \/ v = Null)

\* ------------------------------------------------------------------ base64
Pad == 64

\* One group of up to three bytes as four base64 characters.
Base64Group(b) ==
    LET n == Len(b)
        v == b[1] * 65536 + (IF n >= 2 THEN b[2] * 256 ELSE 0) + (IF n >= 3 THEN b[3] ELSE 0)
        s1 == v \div 262144
        s2 == (v \div 4096) % 64
        s3 == (v \div 64) % 64
        s4 == v % 64
    IN  CASE n = 1 -> <<s1, s2, Pad, Pad>>
          [] n = 2 -> <<s1, s2, s3, Pad>>
          [] OTHER -> <<s1, s2, s3, s4>>

RECURSIVE toBase64(_)
\* file.buffer.toString("base64")
toBase64(b) ==
    IF Len(b) = 0 THEN <<>>
    ELSE IF Len(b) <= 3 THEN Base64Group(b)
    ELSE Base64Group(SubSeq(b, 1, 3)) \o toBase64(SubSeq(b, 4, Len(b)))

\* Four base64 characters back to up to three bytes.
BytesOfGroup(s) ==
    LET c3 == IF s[3] = Pad THEN 0 ELSE s[3]
        c4 == IF s[4] = Pad THEN 0 ELSE s[4]
        v == s[1] * 262144 + s[2] * 4096 + c3 * 64 + c4
        b1 == v \div 65536
        b2 == (v \div 256) % 256
        b3 == v % 256
    IN  IF s[3] = Pad THEN <<b1>>
        ELSE IF s[4] = Pad THEN <<b1, b2>>
        ELSE <<b1, b2, b3>>

RECURSIVE fromBase64(_)
\* Buffer.from(item.data, "base64") on a padded base64 string
fromBase64(s) ==
    IF Len(s) < 4 THEN <<>>
    ELSE BytesOfGroup(SubSeq(s, 1, 4)) \o fromBase64(SubSeq(s, 5, Len(s)))

\* ---------------------------------------------------------------- parseInt
\* A JavaScript number that may be NaN.
NaN == [nan |-> TRUE, n |-> 0]
Num(n) == [nan |-> FALSE, n |-> n]

DigitChars == {"0", "1", "2", "3", "4", "5", "6", "7", "8", "9"}
DigitVal(c) ==
    CASE c = "0" -> 0 [] c = "1" -> 1 [] c = "2" -> 2 [] c = "3" -> 3
      [] c = "4" -> 4 [] c = "5" -> 5 [] c = "6" -> 6 [] c = "7" -> 7
      [] c = "8" -> 8 [] OTHER -> 9

RECURSIVE LeadingDigits(_, _, _)
\* The value of the longest digit prefix of s, with the count of its digits.
LeadingDigits(s, acc, cnt) ==
    IF Len(s) > 0 /\ s[1] \in DigitChars
    THEN LeadingDigits(Tail(s), acc * 10 + DigitVal(s[1]), cnt + 1)
    ELSE [value |-> acc, count |-> cnt]

\* parseInt(itemId) on a string given as its sequence of characters: an optional
\* sign, then the longest run of digits; NaN when there is no digit.
parseInt(s) ==
    LET signed == Len(s) > 0 /\ s[1] \in {"-", "+"}
        body == IF signed THEN Tail(s) ELSE s
        d == LeadingDigits(body, 0, 0)
    IN  IF d.count = 0 THEN NaN
        ELSE IF signed /\ s[1] = "-" THEN Num(0 - d.value)
        ELSE Num(d.value)

\* ------------------------------------------------------------ generateCode
\* The codes the modelled code space holds.
Draws == 0 .. (CodeSpan - 1)
\* A generator stuck on one value.
generateCodeConstant(u) == ToString(CodeLo)
\* generateCode(): Math.floor(100000 + Math.random() * 900000).toString(); the
\* random draw is the argument u.
generateCode(u) == ToString(CodeLo + u)
\* String.prototype.toUpperCase on the codes and code-like strings used here.
toUpperCase(c) == IF c = "abc123" THEN "ABC123" ELSE c

\* ------------------------------------------------------------ the schemas
\* A DataItemSchema subdocument.  Paths the handler does not give are absent;
\* isFile and downloaded take their defaults.
DataItem(data, fileName, fileType, fileSize, isFile) ==
    [data |-> data, fileName |-> fileName, fileType |-> fileType,
     fileSize |-> fileSize, isFile |-> isFile,
     downloaded |-> FALSE, downloadedAt |-> UndefinedDate]

\* A DataSchema document as `new DataModel({code, items, verified: false})`
\* builds it: a fresh _id, createdAt defaulting to Date.now, verifiedAt absent.
Document(id, code, items, t) ==
    [_id |-> id, code |-> code, items |-> items, verified |-> FALSE,
     createdAt |-> t, verifiedAt |-> UndefinedDate]

\* What findOne resolves to when no document matches.
NullDoc == Document(0, "", <<>>, UndefinedDate)

\* --------------------------------------------------------------- the store
VARIABLES
    collection,   \* the "datas" collection: _id -> stored document
    pc,           \* per request slot: idle, findOne, save, deleteOne, done
    args,         \* per request slot: the route and the parsed request
    loc,          \* per request slot: the handler's local variables
    res,          \* per request slot: the response sent
    now,          \* the clock read by Date.now and new Date()
    nextId        \* the next ObjectId a new document gets

vars == <<collection, pc, args, loc, res, now, nextId>>

Requests == 1 .. MaxReq

\* The stored documents whose code is c.
WithCode(coll, c) == {id \in DOMAIN coll : coll[id].code = c}

\* DataModel.findOne({ code }): a matching document, or null.
findOne(coll, c) ==
    IF WithCode(coll, c) = {} THEN NullDoc
    ELSE coll[CHOOSE id \in WithCode(coll, c) : TRUE]

\* Document validation run by save(): code and every item's data are required.
validate(doc) ==
    /\ doc.code # ""
    /\ \A i \in 1 .. Len(doc.items) : checkRequired(doc.items[i].data)

\* Dropping the unique index: the insert accepts a code already stored.
DuplicateKeyNoIndex(coll, doc) == FALSE

\* The unique index on code (`unique: true`): an insert of a code that a stored
\* document holds is rejected with a duplicate key error (E11000).
DuplicateKey(coll, doc) == WithCode(coll, doc.code) # {}

\* The collection after insertOne(doc) succeeded.
insertOne(coll, doc) ==
    [id \in DOMAIN coll \cup {doc._id} |-> IF id = doc._id THEN doc ELSE coll[id]]

\* A delete with an empty filter: every document is removed.
deleteEverything(coll, c) == <<>>

\* The collection after deleteOne({ code }): one matching document is removed,
\* none when nothing matches.
deleteOne(coll, c) ==
    IF WithCode(coll, c) = {} THEN coll
    ELSE LET gone == CHOOSE id \in WithCode(coll, c) : TRUE
         IN  [id \in DOMAIN coll \ {gone} |-> coll[id]]

\* -------------------------------------------------------------- responses
NoResponse ==
    [status |-> 0, type |-> "none", has |-> {}, error |-> "", code |-> "",
     itemCount |-> UndefinedNum, items |-> <<>>, files |-> <<>>,
     verified |-> FALSE, itemId |-> NaN, data |-> Undefined,
     createdAt |-> UndefinedDate, verifiedAt |-> UndefinedDate,
     fileName |-> UndefinedStr, contentType |-> "", contentLength |-> UndefinedNum]

\* res.status(s).json({ error: e })
ErrorResponse(s, e) ==
    [NoResponse EXCEPT !.status = s, !.type = "json", !.has = {"error"}, !.error = e]

\* Express's default error handler, reached when a middleware passes an error
\* on before the route handler runs: a 500 that is not one of the JSON results.
DefaultErrorResponse == [NoResponse EXCEPT !.status = 500, !.type = "html"]

\* ---------------------------------------------------------- request state
NoArgs ==
    [op |-> "none", code |-> "", itemId |-> <<>>, data |-> Undefined,
     multipleData |-> [kind |-> "undefined", elems |-> <<>>, text |-> ""],
     files |-> <<>>]

NoLocals == [code |-> "", itemIndex |-> NaN, dataEntry |-> NullDoc]

\* Requests arrive in slot order (the slots are interchangeable).
MayStart(r) == pc[r] = "idle" /\ (IF r = 1 THEN TRUE ELSE pc[r - 1] # "idle")

\* The handler of slot r returns with response x.
Respond(r, x) ==
    /\ pc' = [pc EXCEPT ![r] = "done"]
    /\ res' = [res EXCEPT ![r] = x]

\* ------------------------------------------------ POST /api/generate-code
\* `multipleData` of a request body: absent, a list, or a string (a value that
\* is not a list but has a length).
NoList == [kind |-> "undefined", elems |-> <<>>, text |-> ""]
List(elems) == [kind |-> "array", elems |-> elems, text |-> ""]
Text(t) == [kind |-> "string", elems |-> <<>>, text |-> t]

\* !multipleData
ListFalsy(md) == md.kind = "undefined" \/ (md.kind = "string" /\ md.text = "")
\* multipleData.length
Length(md) == IF md.kind = "array" THEN Len(md.elems) ELSE Len(md.text)

\* The request is turned away with "Data is required".
DataMissing(data, md) == Falsy(data) /\ (ListFalsy(md) \/ Length(md) = 0)

\* The items built from the body: one per list element, else the single value.
GenerateItems(data, md) ==
    IF ~ListFalsy(md) /\ md.kind = "array"
    THEN [i \in 1 .. Len(md.elems) |->
            DataItem(md.elems[i], UndefinedStr, UndefinedStr, UndefinedNum, FALSE)]
    ELSE <<DataItem(data, UndefinedStr, UndefinedStr, UndefinedNum, FALSE)>>

\* res.json({ success, code, itemCount, message })
GenerateCodeResponse(doc) ==
    [NoResponse EXCEPT !.status = 200, !.type = "json",
                       !.has = {"success", "code", "itemCount", "message"},
                       !.code = doc.code, !.itemCount = Len(doc.items)]

\* The request arrives: the body is checked and the first candidate code drawn.
GenerateCodeStart(r, data, md) ==
    /\ MayStart(r)
    /\ args' = [args EXCEPT ![r] =
                  [NoArgs EXCEPT !.op = "generate", !.data = data, !.multipleData = md]]
    /\ IF DataMissing(data, md)
       THEN /\ Respond(r, ErrorResponse(400, "Data is required"))
            /\ UNCHANGED loc
       ELSE /\ \E u \in Draws : loc' = [loc EXCEPT ![r].code = generateCode(u)]
            /\ pc' = [pc EXCEPT ![r] = "findOne"]
            /\ UNCHANGED res
    /\ UNCHANGED <<collection, now, nextId>>

\* findOne({ code }) resolves: a used code is redrawn, an unused one is kept and
\* the document is built and handed to save().
GenerateCodeFind(r) ==
    /\ pc[r] = "findOne" /\ args[r].op = "generate"
    /\ IF findOne(collection, loc[r].code) # NullDoc
       THEN /\ \E u \in Draws : loc' = [loc EXCEPT ![r].code = generateCode(u)]
            /\ UNCHANGED <<pc, now, nextId>>
       ELSE /\ loc' = [loc EXCEPT ![r].dataEntry =
                         Document(nextId, loc[r].code,
                                  GenerateItems(args[r].data, args[r].multipleData), now)]
            /\ pc' = [pc EXCEPT ![r] = "save"]
            /\ now' = now + 1
            /\ nextId' = nextId + 1
    /\ UNCHANGED <<collection, args, res>>

\* newData.save() resolves or rejects; a rejection lands in the catch block.
GenerateCodeSave(r) ==
    /\ pc[r] = "save" /\ args[r].op = "generate"
    /\ LET doc == loc[r].dataEntry
       IN  IF ~validate(doc) \/ DuplicateKey(collection, doc)
           THEN /\ Respond(r, ErrorResponse(500, "Failed to generate code"))
                /\ UNCHANGED collection
           ELSE /\ collection' = insertOne(collection, doc)
                /\ Respond(r, GenerateCodeResponse(doc))
    /\ UNCHANGED <<args, loc, now, nextId>>

\* -------------------------------------------------- POST /api/upload-file
\* An uploaded file as multer hands it over; file.size is the buffer's length.
File(name, type, bytes) == [originalname |-> name, mimetype |-> type, buffer |-> bytes]

\* multer's fileSize limit: a file longer than the limit makes the upload
\* middleware fail with LIMIT_FILE_SIZE before the route handler is called.
LimitFileSize(files) == \E i \in 1 .. Len(files) : Len(files[i].buffer) > fileSizeLimit

\* req.files.map(...): one file item per upload, its bytes kept as base64.
UploadItems(files) ==
    [i \in 1 .. Len(files) |->
        DataItem(Base64String(toBase64(files[i].buffer)), files[i].originalname,
                 files[i].mimetype, Len(files[i].buffer), TRUE)]

\* res.json({ success, code, items: [{fileName, fileType, fileSize}], message })
UploadFileResponse(doc) ==
    [NoResponse EXCEPT !.status = 200, !.type = "json",
                       !.has = {"success", "code", "items", "message"},
                       !.code = doc.code,
                       !.files = [i \in 1 .. Len(doc.items) |->
                                    [fileName |-> doc.items[i].fileName,
                                     fileType |-> doc.items[i].fileType,
                                     fileSize |-> doc.items[i].fileSize]]]

UploadFileStart(r, files) ==
    /\ MayStart(r)
    /\ args' = [args EXCEPT ![r] = [NoArgs EXCEPT !.op = "upload", !.files = files]]
    /\ IF LimitFileSize(files)
       THEN /\ Respond(r, DefaultErrorResponse)
            /\ UNCHANGED loc
       ELSE IF Len(files) = 0
       THEN /\ Respond(r, ErrorResponse(400, "At least one file is required"))
            /\ UNCHANGED loc
       ELSE /\ \E u \in Draws : loc' = [loc EXCEPT ![r].code = generateCode(u)]
            /\ pc' = [pc EXCEPT ![r] = "findOne"]
            /\ UNCHANGED res
    /\ UNCHANGED <<collection, now, nextId>>

UploadFileFind(r) ==
    /\ pc[r] = "findOne" /\ args[r].op = "upload"
    /\ IF findOne(collection, loc[r].code) # NullDoc
       THEN /\ \E u \in Draws : loc' = [loc EXCEPT ![r].code = generateCode(u)]
            /\ UNCHANGED <<pc, now, nextId>>
       ELSE /\ loc' = [loc EXCEPT ![r].dataEntry =
                         Document(nextId, loc[r].code, UploadItems(args[r].files), now)]
            /\ pc' = [pc EXCEPT ![r] = "save"]
            /\ now' = now + 1
            /\ nextId' = nextId + 1
    /\ UNCHANGED <<collection, args, res>>

UploadFileSave(r) ==
    /\ pc[r] = "save" /\ args[r].op = "upload"
    /\ LET doc == loc[r].dataEntry
       IN  IF ~validate(doc) \/ DuplicateKey(collection, doc)
           THEN /\ Respond(r, ErrorResponse(500, "Failed to upload file"))
                /\ UNCHANGED collection
           ELSE /\ collection' = insertOne(collection, doc)
                /\ Respond(r, UploadFileResponse(doc))
    /\ UNCHANGED <<args, loc, now, nextId>>

\* -------------------------------------------------- POST /api/verify-code
\* dataEntry.items.map((item, index) => ({...})): the per-item metadata; the
\* data of a file item is replaced by null.
Projection(items) ==
    [i \in 1 .. Len(items) |->
        [id |-> i - 1, isFile |-> items[i].isFile, fileName |-> items[i].fileName,
         fileType |-> items[i].fileType, fileSize |-> items[i].fileSize,
         downloaded |-> items[i].downloaded,
         data |-> IF items[i].isFile THEN Null ELSE items[i].data]]

\* res.json({ success, code, items, itemCount, verified: true, createdAt })
VerifyCodeResponse(doc) ==
    [NoResponse EXCEPT !.status = 200, !.type = "json",
                       !.has = {"success", "code", "items", "itemCount", "verified", "createdAt"},
                       !.code = doc.code, !.items = Projection(doc.items),
                       !.itemCount = Len(doc.items), !.verified = TRUE,
                       !.createdAt = doc.createdAt]

\* save() that resolves although its update matched no document.
DocumentNotFoundIgnored(coll, doc) == FALSE

\* save() of a loaded document updates the stored document with its _id; when
\* none is left the update matches nothing and save() rejects with
\* DocumentNotFoundError.
DocumentNotFound(coll, doc) == doc._id \notin DOMAIN coll

\* save() writing the whole in-memory document back over the stored one.
SaveWholeDocument(coll, doc) == [coll EXCEPT ![doc._id] = doc]

\* save() that clears the flag it was meant to set.
SaveUnverified(coll, doc) ==
    [coll EXCEPT ![doc._id].verified = FALSE, ![doc._id].verifiedAt = doc.verifiedAt]

\* dataEntry.save() of a loaded document whose verified and verifiedAt were
\* assigned: Mongoose sends an update of the modified paths only.
SaveVerified(coll, doc) ==
    [coll EXCEPT ![doc._id].verified = doc.verified, ![doc._id].verifiedAt = doc.verifiedAt]

VerifyCodeStart(r, code) ==
    /\ MayStart(r)
    /\ args' = [args EXCEPT ![r] = [NoArgs EXCEPT !.op = "verify", !.code = code]]
    /\ IF code = ""
       THEN Respond(r, ErrorResponse(400, "Code is required"))
       ELSE pc' = [pc EXCEPT ![r] = "findOne"] /\ UNCHANGED res
    /\ UNCHANGED <<collection, loc, now, nextId>>

\* findOne resolves; the loaded document is marked verified in memory and save()
\* is called.
VerifyCodeFind(r) ==
    /\ pc[r] = "findOne" /\ args[r].op = "verify"
    /\ LET dataEntry == findOne(collection, toUpperCase(args[r].code))
       IN  IF dataEntry = NullDoc
           THEN /\ Respond(r, ErrorResponse(404, "Invalid code"))
                /\ UNCHANGED <<loc, now>>
           ELSE /\ loc' = [loc EXCEPT ![r].dataEntry =
                             [dataEntry EXCEPT !.verified = TRUE, !.verifiedAt = now]]
                /\ pc' = [pc EXCEPT ![r] = "save"]
                /\ now' = now + 1
                /\ UNCHANGED res
    /\ UNCHANGED <<collection, args, nextId>>

\* save() resolves, or rejects (DocumentNotFoundError) when the document was
\* deleted in the meantime; the metadata returned is that of the loaded copy.
VerifyCodeSave(r) ==
    /\ pc[r] = "save" /\ args[r].op = "verify"
    /\ LET dataEntry == loc[r].dataEntry
       IN  IF DocumentNotFound(collection, dataEntry)
           THEN /\ Respond(r, ErrorResponse(500, "Failed to verify code"))
                /\ UNCHANGED collection
           ELSE /\ collection' = SaveVerified(collection, dataEntry)
                /\ Respond(r, VerifyCodeResponse(dataEntry))
    /\ UNCHANGED <<args, loc, now, nextId>>

\* ----------------------------------------------------- GET /api/data/:code
\* A projection that hands out every item's stored data, a file's included.
DataProjectionWithPayload(items) ==
    [i \in 1 .. Len(items) |->
        [id |-> i - 1, isFile |-> items[i].isFile, fileName |-> items[i].fileName,
         fileType |-> items[i].fileType, fileSize |-> items[i].fileSize,
         downloaded |-> items[i].downloaded, data |-> items[i].data]]

\* This handler's own dataEntry.items.map((item, index) => ({...})).
DataProjection(items) ==
    [i \in 1 .. Len(items) |->
        [id |-> i - 1, isFile |-> items[i].isFile, fileName |-> items[i].fileName,
         fileType |-> items[i].fileType, fileSize |-> items[i].fileSize,
         downloaded |-> items[i].downloaded,
         data |-> IF items[i].isFile THEN Null ELSE items[i].data]]

\* res.json({ success, code, items, itemCount, verified, createdAt, verifiedAt })
GetDataResponse(doc) ==
    [NoResponse EXCEPT !.status = 200, !.type = "json",
                       !.has = {"success", "code", "items", "itemCount", "verified", "createdAt"}
                               \cup (IF doc.verifiedAt = UndefinedDate THEN {} ELSE {"verifiedAt"}),
                       !.code = doc.code, !.items = DataProjection(doc.items),
                       !.itemCount = Len(doc.items), !.verified = doc.verified,
                       !.createdAt = doc.createdAt, !.verifiedAt = doc.verifiedAt]

GetDataStart(r, code) ==
    /\ MayStart(r)
    /\ args' = [args EXCEPT ![r] = [NoArgs EXCEPT !.op = "get", !.code = code]]
    /\ pc' = [pc EXCEPT ![r] = "findOne"]
    /\ UNCHANGED <<collection, loc, res, now, nextId>>

GetDataFind(r) ==
    /\ pc[r] = "findOne" /\ args[r].op = "get"
    /\ LET dataEntry == findOne(collection, toUpperCase(args[r].code))
       IN  IF dataEntry = NullDoc
           THEN /\ Respond(r, ErrorResponse(404, "Data not found"))
                /\ UNCHANGED loc
           ELSE /\ Respond(r, GetDataResponse(dataEntry))
                /\ loc' = [loc EXCEPT ![r].dataEntry = dataEntry]
    /\ UNCHANGED <<collection, args, now, nextId>>

\* ------------------------------------------ GET /api/download/:code/:itemId
\* itemIndex < 0 || itemIndex >= dataEntry.items.length (false for NaN)
OutOfRange(itemIndex, items) ==
    ~itemIndex.nan /\ (itemIndex.n < 0 \/ itemIndex.n >= Len(items))

\* The check of the downloaded flag left out.
AlreadyDownloadedUnchecked(item) == FALSE

\* if (item.downloaded)
AlreadyDownloaded(item) == item.downloaded

\* The response of a successful download: the decoded bytes of a file item with
\* its headers (the fallback attachment name is kept without its item suffix),
\* or the JSON envelope { code, itemId, data, createdAt }.
DownloadResponse(doc, itemIndex) ==
    LET item == doc.items[itemIndex.n + 1]
    IN  IF item.isFile
        THEN [NoResponse EXCEPT
                !.status = 200, !.type = "file", !.has = {"body"},
                !.data = Buffer(fromBase64(item.data.octets)),
                !.fileName = IF item.fileName \in {UndefinedStr, ""}
                             THEN "file-" \o doc.code ELSE item.fileName,
                !.contentType = IF item.fileType \in {UndefinedStr, ""}
                                THEN "application/octet-stream" ELSE item.fileType,
                !.contentLength = Len(fromBase64(item.data.octets))]
        ELSE [NoResponse EXCEPT
                !.status = 200, !.type = "attachment",
                !.has = {"code", "itemId", "createdAt"}
                        \cup (IF item.data = Undefined THEN {} ELSE {"data"}),
                !.code = doc.code, !.itemId = itemIndex, !.data = item.data,
                !.createdAt = doc.createdAt, !.contentType = "application/json"]

\* save() writing the whole in-memory document back, item i included.
SaveWholeDocumentWithItem(coll, doc, i) == [coll EXCEPT ![doc._id] = doc]

\* save() that writes the flag without its timestamp.
SaveDownloadedFlagOnly(coll, doc, i) ==
    [coll EXCEPT ![doc._id].items[i].downloaded = doc.items[i].downloaded]

\* dataEntry.save() after item.downloaded and item.downloadedAt were assigned:
\* an update of those two paths of that one item.
SaveDownloaded(coll, doc, i) ==
    [coll EXCEPT ![doc._id].items[i].downloaded = doc.items[i].downloaded,
                 ![doc._id].items[i].downloadedAt = doc.items[i].downloadedAt]

DownloadStart(r, code, itemId) ==
    /\ MayStart(r)
    /\ args' = [args EXCEPT ![r] =
                  [NoArgs EXCEPT !.op = "download", !.code = code, !.itemId = itemId]]
    /\ loc' = [loc EXCEPT ![r].itemIndex = parseInt(itemId)]
    /\ pc' = [pc EXCEPT ![r] = "findOne"]
    /\ UNCHANGED <<collection, res, now, nextId>>

\* findOne resolves; the index and the downloaded flag are checked on the loaded
\* copy, the item is marked in memory and save() is called.  items[NaN] is
\* undefined, so reading its downloaded flag throws into the catch block.
DownloadFind(r) ==
    /\ pc[r] = "findOne" /\ args[r].op = "download"
    /\ LET dataEntry == findOne(collection, toUpperCase(args[r].code))
           itemIndex == loc[r].itemIndex
       IN  IF dataEntry = NullDoc
           THEN /\ Respond(r, ErrorResponse(404, "Data not found"))
                /\ UNCHANGED <<loc, now>>
           ELSE IF OutOfRange(itemIndex, dataEntry.items)
           THEN /\ Respond(r, ErrorResponse(404, "Item not found"))
                /\ UNCHANGED <<loc, now>>
           ELSE IF itemIndex.nan
           THEN /\ Respond(r, ErrorResponse(500, "Failed to download data"))
                /\ UNCHANGED <<loc, now>>
           ELSE IF AlreadyDownloaded(dataEntry.items[itemIndex.n + 1])
           THEN /\ Respond(r, ErrorResponse(410, "This item has already been downloaded"))
                /\ loc' = [loc EXCEPT ![r].dataEntry = dataEntry]
                /\ UNCHANGED now
           ELSE /\ loc' = [loc EXCEPT ![r].dataEntry =
                             [dataEntry EXCEPT !.items[itemIndex.n + 1].downloaded = TRUE,
                                               !.items[itemIndex.n + 1].downloadedAt = now]]
                /\ pc' = [pc EXCEPT ![r] = "save"]
                /\ now' = now + 1
                /\ UNCHANGED res
    /\ UNCHANGED <<collection, args, nextId>>

\* save() resolves, or rejects when the document is gone; the payload sent is
\* read from the loaded copy.
DownloadSave(r) ==
    /\ pc[r] = "save" /\ args[r].op = "download"
    /\ LET dataEntry == loc[r].dataEntry
           itemIndex == loc[r].itemIndex
       IN  IF DocumentNotFound(collection, dataEntry)
           THEN /\ Respond(r, ErrorResponse(500, "Failed to download data"))
                /\ UNCHANGED collection
           ELSE /\ collection' = SaveDownloaded(collection, dataEntry, itemIndex.n + 1)
                /\ Respond(r, DownloadResponse(dataEntry, itemIndex))
    /\ UNCHANGED <<args, loc, now, nextId>>

\* -------------------------------------------------- DELETE /api/data/:code
DeleteStart(r, code) ==
    /\ MayStart(r)
    /\ args' = [args EXCEPT ![r] = [NoArgs EXCEPT !.op = "delete", !.code = code]]
    /\ pc' = [pc EXCEPT ![r] = "findOne"]
    /\ UNCHANGED <<collection, loc, res, now, nextId>>

DeleteFind(r) ==
    /\ pc[r] = "findOne" /\ args[r].op = "delete"
    /\ LET dataEntry == findOne(collection, toUpperCase(args[r].code))
       IN  IF dataEntry = NullDoc
           THEN /\ Respond(r, ErrorResponse(404, "Data not found"))
                /\ UNCHANGED loc
           ELSE /\ pc' = [pc EXCEPT ![r] = "deleteOne"]
                /\ loc' = [loc EXCEPT ![r].dataEntry = dataEntry]
                /\ UNCHANGED res
    /\ UNCHANGED <<collection, args, now, nextId>>

\* deleteOne({ code }) resolves; its result is not looked at.
DeleteOne(r) ==
    /\ pc[r] = "deleteOne" /\ args[r].op = "delete"
    /\ collection' = deleteOne(collection, toUpperCase(args[r].code))
    /\ Respond(r, [NoResponse EXCEPT !.status = 200, !.type = "json",
                                     !.has = {"success", "message"}])
    /\ UNCHANGED <<args, loc, now, nextId>>

\* ------------------------------------------------------------ the requests
Hello == Json("\"hello\"")
Zero == Json("0")
Nested == Json("{\"a\":[1,{\"b\":null}]}")

\* The values offered as `data`: absent, the falsy values, a string, a nested
\* object and a list.
DataValues ==
    {Undefined, Zero, Json("\"\""), Json("false"), Null, Hello, Nested, Json("[1,\"x\"]")}

\* The values offered as `multipleData`.
ListValues ==
    {NoList, List(<<>>), List(<<Hello>>), List(<<Zero, Nested>>), List(<<Null>>), Text("ab")}

FileA == File("a.txt", "text/plain", <<104, 105>>)
FileB == File("b.bin", "", <<0, 255, 16>>)
FileBig == File("big.bin", "application/octet-stream", <<1, 2, 3, 4>>)

\* The uploads offered: none, one file, two files, and one over the limit.
FileLists == {<<>>, <<FileA>>, <<FileA, FileB>>, <<FileBig>>}

\* Every code of the code space.
Codes == {generateCode(u) : u \in Draws}
\* The codes presented by callers: those, the empty string and a code never issued.
CodeInputs == Codes \cup {"", "abc123"}
\* The :itemId path parameters offered, as their characters.
ItemIds == {<<"0">>, <<"1">>, <<"2">>, <<"-", "1">>, <<"a", "b", "c">>}

\* The narrower inputs of the runs in which requests overlap.
FewData == {<<Hello, NoList>>, <<Undefined, List(<<Hello, Zero>>)>>}
FewFileLists == {<<FileA>>}
FewItemIds == {<<"0">>, <<"1">>}

\* ---------------------------------------------------------------- start-up
\* The database outlives the server process: when the server starts, the
\* collection is empty or holds a record an earlier run ingested, structured
\* or uploaded, stored at time 1 under the first code.
Stored ==
    {Document(1, generateCode(0), GenerateItems(Undefined, List(<<Hello, Nested>>)), 1),
     Document(1, generateCode(0), UploadItems(<<FileA>>), 1)}

Init ==
    /\ \/ collection = <<>> /\ nextId = 1 /\ now = 1
       \/ \E doc \in Stored : collection = insertOne(<<>>, doc) /\ nextId = 2 /\ now = 2
    /\ pc = [r \in Requests |-> "idle"]
    /\ args = [r \in Requests |-> NoArgs]
    /\ loc = [r \in Requests |-> NoLocals]
    /\ res = [r \in Requests |-> NoResponse]

\* One step of one handler after its request arrived.
Step(r) ==
    \/ GenerateCodeFind(r)
    \/ GenerateCodeSave(r)
    \/ UploadFileFind(r)
    \/ UploadFileSave(r)
    \/ VerifyCodeFind(r)
    \/ VerifyCodeSave(r)
    \/ GetDataFind(r)
    \/ DownloadFind(r)
    \/ DownloadSave(r)
    \/ DeleteFind(r)
    \/ DeleteOne(r)

\* Requests are handled concurrently: any request may arrive, and any handler
\* that awaits the store may take its next step.
Next ==
    \E r \in Requests :
        \/ \E d \in FewData : GenerateCodeStart(r, d[1], d[2])
        \/ \E f \in FewFileLists : UploadFileStart(r, f)
        \/ \E c \in Codes : VerifyCodeStart(r, c)
        \/ \E c \in Codes : GetDataStart(r, c)
        \/ \E c \in Codes, i \in FewItemIds : DownloadStart(r, c, i)
        \/ \E c \in Codes : DeleteStart(r, c)
        \/ Step(r)

Spec == Init /\ [][Next]_vars

\* No handler is between its request and its response.
Quiet == \A r \in Requests : pc[r] \in {"idle", "done"}

\* Requests are issued one after the other, each after the previous response,
\* over the wide input sets; a first request that ingests into an empty
\* database draws from every offered body.
NextSeq ==
    \E r \in Requests :
        \/ /\ Quiet
           /\ \E d \in (IF r = 1 /\ nextId = 1 THEN DataValues \X ListValues ELSE FewData) :
                 GenerateCodeStart(r, d[1], d[2])
        \/ Quiet /\ \E f \in FileLists : UploadFileStart(r, f)
        \/ Quiet /\ \E c \in CodeInputs : VerifyCodeStart(r, c)
        \/ Quiet /\ \E c \in Codes \cup {"abc123"} : GetDataStart(r, c)
        \/ Quiet /\ \E c \in Codes, i \in ItemIds : DownloadStart(r, c, i)
        \/ Quiet /\ \E c \in Codes \cup {"abc123"} : DeleteStart(r, c)
        \/ Step(r)

SpecSeq == Init /\ [][NextSeq]_vars

\* ================================================================ properties
\* The download requests that were answered for item i of the stored record id
\* with the payload or with "already downloaded".
Consumers(id, i) ==
    {r \in Requests : /\ pc[r] = "done" /\ args[r].op = "download"
                      /\ res[r].status \in {200, 410}
                      /\ loc[r].dataEntry._id = id
                      /\ loc[r].itemIndex = Num(i - 1)}

\* The download requests on item i of record id that are still being handled.
PendingConsumers(id, i) ==
    {r \in Requests : /\ pc[r] = "save" /\ args[r].op = "download"
                      /\ loc[r].dataEntry._id = id
                      /\ loc[r].itemIndex = Num(i - 1)}

\* C1: of the download requests handled on the same record and item index, with
\* their findOne, downloaded-check and save steps interleaved, exactly one
\* receives the payload, every other one the 410 result, and the item's
\* downloaded flag is true afterwards.
C1_ExactlyOneConsumer ==
    \A id \in DOMAIN collection :
        \A i \in 1 .. Len(collection[id].items) :
            (Consumers(id, i) # {} /\ PendingConsumers(id, i) = {})
            => /\ Cardinality({r \in Consumers(id, i) : res[r].status = 200}) = 1
               /\ collection[id].items[i].downloaded

\* C2: no two stored records have the same code.
C2_UniqueCodes ==
    \A id1, id2 \in DOMAIN collection :
        id1 # id2 => collection[id1].code # collection[id2].code

\* Two ingestions drew the same code and both found it unused; one was stored
\* and the other was turned away by the unique index.
C2_Witness ==
    \E r1, r2 \in Requests :
        /\ r1 # r2
        /\ args[r1].op \in {"generate", "upload"} /\ args[r2].op \in {"generate", "upload"}
        /\ pc[r1] = "done" /\ pc[r2] = "done"
        /\ loc[r1].dataEntry.code = loc[r2].dataEntry.code
        /\ loc[r1].dataEntry._id \in DOMAIN collection
        /\ loc[r2].dataEntry._id # 0 /\ loc[r2].dataEntry._id \notin DOMAIN collection
        /\ res[r1].status = 200

\* C3: an ingestion whose document is valid is never answered with a failure:
\* a duplicate-code rejection of its insert is retried with a new code, so the
\* request ends with a success result and its record stored.
C3_DuplicateRetried ==
    \A r \in Requests :
        (/\ pc[r] = "done" /\ args[r].op \in {"generate", "upload"}
         /\ loc[r].dataEntry # NullDoc /\ validate(loc[r].dataEntry))
        => res[r].status = 200

\* The stored record a download request of slot r addresses, and whether the
\* item it addresses exists there and has its downloaded flag set.
Target(r) == findOne(collection, toUpperCase(args[r].code))
TargetConsumed(r) ==
    /\ Target(r) # NullDoc
    /\ ~loc[r].itemIndex.nan
    /\ loc[r].itemIndex.n >= 0 /\ loc[r].itemIndex.n < Len(Target(r).items)
    /\ Target(r).items[loc[r].itemIndex.n + 1].downloaded

\* Slot r's download handler takes the step in which its findOne resolves.
DownloadReads(r) == pc[r] = "findOne" /\ args[r].op = "download" /\ pc'[r] # "findOne"

\* C4: an item's downloaded flag, once true in the store, is true in every later
\* state in which its record exists, whichever verify, get and download steps
\* follow; and a download request that reads the record once the flag is true
\* never goes on to deliver the payload.
C4_ConsumedIsFinal ==
    [][/\ \A id \in DOMAIN collection \cap DOMAIN collection' :
            \A i \in 1 .. Len(collection[id].items) :
               collection[id].items[i].downloaded
               => (/\ Len(collection'[id].items) = Len(collection[id].items)
                   /\ collection'[id].items[i].downloaded)
       /\ \A r \in Requests :
            (DownloadReads(r) /\ TargetConsumed(r))
            => (pc'[r] = "done" /\ res'[r].status # 200)]_vars

\* An item was downloaded, and a verify that read the record after that (its
\* copy shows the flag) has saved and answered; the flag is still set.
C4_Witness ==
    \E r1, r2 \in Requests :
        /\ args[r1].op = "download" /\ pc[r1] = "done" /\ res[r1].status = 200
        /\ args[r2].op = "verify" /\ pc[r2] = "done" /\ res[r2].status = 200
        /\ loc[r2].dataEntry._id = loc[r1].dataEntry._id
        /\ loc[r2].dataEntry.items[loc[r1].itemIndex.n + 1].downloaded
        /\ loc[r1].dataEntry._id \in DOMAIN collection
        /\ collection[loc[r1].dataEntry._id].items[loc[r1].itemIndex.n + 1].downloaded

\* C5: a download request that finds the item's downloaded flag already true is
\* answered 410 with no payload and changes nothing in the store.
C5_AlreadyConsumedIsNoOp ==
    [][\A r \in Requests :
          (DownloadReads(r) /\ TargetConsumed(r))
          => /\ res'[r] = ErrorResponse(410, "This item has already been downloaded")
             /\ res'[r].data = Undefined
             /\ collection' = collection]_vars

\* A download was answered 410, after an earlier download of the same item
\* delivered the payload.
C5_Witness ==
    \E r1, r2 \in Requests :
        /\ args[r1].op = "download" /\ pc[r1] = "done" /\ res[r1].status = 200
        /\ args[r2].op = "download" /\ pc[r2] = "done" /\ res[r2].status = 410
        /\ loc[r2].dataEntry._id = loc[r1].dataEntry._id
        /\ loc[r2].itemIndex = loc[r1].itemIndex
        /\ loc[r1].dataEntry._id \in DOMAIN collection
        /\ collection[loc[r1].dataEntry._id].items[loc[r1].itemIndex.n + 1].downloadedAt
             = loc[r1].dataEntry.items[loc[r1].itemIndex.n + 1].downloadedAt

\* C6: for every structured value V offered, falsy ones included, ingesting V
\* as the single data value succeeds, and a download of item 0 of the returned
\* code that follows returns an envelope whose data field equals V.
C6_RoundTrip ==
    \A r \in Requests :
        (/\ pc[r] = "done" /\ args[r].op = "generate"
         /\ args[r].data \in DataValues \ {Undefined}
         /\ args[r].multipleData = NoList)
        => /\ res[r].status = 200
           /\ \A q \in Requests :
                (/\ q = r + 1 /\ pc[q] = "done" /\ args[q].op = "download"
                 /\ args[q].code = res[r].code /\ loc[q].itemIndex = Num(0))
                => /\ res[q].status = 200
                   /\ "data" \in res[q].has
                   /\ res[q].data = args[r].data

\* The values a structured ingestion is asked to store: those of a non-empty
\* list, else the single value.
Offered(data, md) ==
    IF md.kind = "array" /\ Len(md.elems) > 0 THEN md.elems
    ELSE IF data # Undefined THEN <<data>>
    ELSE <<>>

\* C7: structured ingestion answers 400 and creates no record exactly when
\* neither a single data value nor a non-empty list is present; otherwise it
\* succeeds and creates one record whose items are, in order, the offered
\* values, each with isFile = false.
C7_ValidationExact ==
    \A r \in Requests :
        (pc[r] = "done" /\ args[r].op = "generate")
        => IF Offered(args[r].data, args[r].multipleData) = <<>>
           THEN res[r].status = 400 /\ loc[r].dataEntry = NullDoc
           ELSE /\ res[r].status = 200
                /\ [i \in 1 .. Len(loc[r].dataEntry.items) |-> loc[r].dataEntry.items[i].data]
                     = Offered(args[r].data, args[r].multipleData)
                /\ \A i \in 1 .. Len(loc[r].dataEntry.items) :
                     ~loc[r].dataEntry.items[i].isFile

\* C8: every successful ingestion, structured or file, stored one record with
\* verified = false and every item not downloaded, and its response carries
\* the new code and an itemCount equal to the number of items stored.
C8_IngestionResult ==
    \A r \in Requests :
        (/\ pc[r] = "done" /\ args[r].op \in {"generate", "upload"}
         /\ res[r].status = 200)
        => /\ ~loc[r].dataEntry.verified
           /\ \A i \in 1 .. Len(loc[r].dataEntry.items) :
                ~loc[r].dataEntry.items[i].downloaded
           /\ "code" \in res[r].has /\ res[r].code = loc[r].dataEntry.code
           /\ "itemCount" \in res[r].has
           /\ res[r].itemCount = Len(loc[r].dataEntry.items)

\* Slots r - 1 and r hold two verify calls in a row on the same code, the
\* first of them answered with success.
VerifiedTwice(r) ==
    /\ r > 1
    /\ args[r].op = "verify" /\ args[r - 1].op = "verify"
    /\ args[r].code = args[r - 1].code
    /\ pc[r - 1] = "done" /\ res[r - 1].status = 200

\* C9: of two verify calls in a row on the same existing code, with nothing in
\* between, the second succeeds like the first, with verified = true and the
\* same item metadata, and its save changes no stored field but verifiedAt.
C9_VerifyIdempotent ==
    /\ [](\A r \in Requests :
            (VerifiedTwice(r) /\ pc[r] = "done")
            => /\ res[r].status = 200
               /\ res[r].verified /\ res[r - 1].verified
               /\ res[r].items = res[r - 1].items
               /\ res[r].itemCount = res[r - 1].itemCount
               /\ res[r].code = res[r - 1].code
               /\ (loc[r].dataEntry._id \in DOMAIN collection
                   => collection[loc[r].dataEntry._id].verified))
    /\ [][\A r \in Requests :
            (VerifiedTwice(r) /\ pc[r] = "save" /\ pc'[r] = "done")
            => LET id == loc[r].dataEntry._id
               IN  /\ id \in DOMAIN collection /\ DOMAIN collection' = DOMAIN collection
                   /\ collection' =
                        [collection EXCEPT ![id].verifiedAt = collection'[id].verifiedAt]]_vars

\* Two verify calls in a row on one code both succeeded, and the stored
\* verifiedAt is the second call's, later than the first call's.
C9_Witness ==
    \E r \in Requests :
        /\ VerifiedTwice(r) /\ pc[r] = "done" /\ res[r].status = 200
        /\ Len(res[r].items) > 0
        /\ loc[r].dataEntry._id \in DOMAIN collection
        /\ collection[loc[r].dataEntry._id].verifiedAt = loc[r].dataEntry.verifiedAt
        /\ loc[r].dataEntry.verifiedAt > loc[r - 1].dataEntry.verifiedAt

\* C10: a record's verified flag is false when the record is created, is true
\* once a verify of it has succeeded, and once true stays true for as long as
\* the record exists, under any interleaving of verify, get and download steps.
C10_VerifiedIsMonotonic ==
    /\ \A id \in DOMAIN collection : ~collection[id].verified
    /\ [][/\ \A id \in DOMAIN collection' \ DOMAIN collection : ~collection'[id].verified
          /\ \A id \in DOMAIN collection \cap DOMAIN collection' :
               collection[id].verified => collection'[id].verified
          /\ \A r \in Requests :
               (/\ args[r].op = "verify" /\ pc[r] = "save" /\ pc'[r] = "done"
                /\ res'[r].status = 200)
               => /\ loc[r].dataEntry._id \in DOMAIN collection'
                  /\ collection'[loc[r].dataEntry._id].verified]_vars

\* A verify succeeded, and a download that had read the record before the
\* verify was saved (its copy is unverified) saved afterwards; the record is
\* still verified.
C10_Witness ==
    \E r1, r2 \in Requests :
        /\ args[r1].op = "verify" /\ pc[r1] = "done" /\ res[r1].status = 200
        /\ args[r2].op = "download" /\ pc[r2] = "done" /\ res[r2].status = 200
        /\ loc[r2].dataEntry._id = loc[r1].dataEntry._id
        /\ ~loc[r2].dataEntry.verified
        /\ loc[r1].dataEntry._id \in DOMAIN collection
        /\ collection[loc[r1].dataEntry._id].verified
        /\ collection[loc[r1].dataEntry._id].items[loc[r2].itemIndex.n + 1].downloaded

\* Slot r's get handler takes a step (its request arrives, or its findOne
\* resolves and it answers).
GetDataSteps(r) == args'[r].op = "get" /\ pc'[r] # pc[r]

\* C11: GET /api/data/:code leaves the whole store unchanged (verified,
\* verifiedAt and every downloaded flag included), and for a stored record it
\* returns the per-item metadata that verify returns for that record.
C11_GetDataReadOnly ==
    [][\A r \in Requests :
          GetDataSteps(r)
          => /\ collection' = collection
             /\ (pc[r] = "findOne" /\ findOne(collection, toUpperCase(args[r].code)) # NullDoc)
                => LET dataEntry == findOne(collection, toUpperCase(args[r].code))
                   IN  /\ res'[r].status = 200
                       /\ res'[r].items = VerifyCodeResponse(dataEntry).items
                       /\ res'[r].itemCount = VerifyCodeResponse(dataEntry).itemCount
                       /\ res'[r].verified = dataEntry.verified]_vars

\* A get was answered for a stored, unverified record that holds a file item,
\* and the record is stored as the get found it.
C11_Witness ==
    \E r \in Requests :
        /\ args[r].op = "get" /\ pc[r] = "done" /\ res[r].status = 200
        /\ Len(res[r].items) > 0 /\ res[r].items[1].isFile
        /\ ~res[r].verified
        /\ loc[r].dataEntry._id \in DOMAIN collection
        /\ collection[loc[r].dataEntry._id] = loc[r].dataEntry

\* Slot r's handler of a by-code route takes the step in which its findOne
\* resolves.
LookupResolves(r) ==
    /\ pc[r] = "findOne" /\ pc'[r] # "findOne"
    /\ args[r].op \in {"verify", "get", "download", "delete"}

\* C12: verify, get, download and delete of a code no stored record has are
\* answered 404 and leave the store unchanged; and a delete is answered with
\* success only if its deleteOne removed a record, so of two concurrent
\* deletes of one stored code at most one reports success.
C12_NotFoundRejected ==
    [][\A r \in Requests :
          /\ (LookupResolves(r) /\ findOne(collection, toUpperCase(args[r].code)) = NullDoc)
             => (/\ pc'[r] = "done" /\ res'[r].status = 404
                 /\ collection' = collection)
          /\ (/\ args[r].op = "delete" /\ pc[r] = "deleteOne" /\ pc'[r] = "done"
              /\ res'[r].status = 200)
             => DOMAIN collection' # DOMAIN collection]_vars

\* The stored records other than those of code c.
WithoutCode(coll, c) == [id \in DOMAIN coll \ WithCode(coll, c) |-> coll[id]]

\* C13: a delete answered with success leaves, in one store step, no record of
\* its code and every other record as it was; from then on a lookup of that
\* code is answered 404, and a record appears in the store only when an
\* ingestion saves it, which may be under the freed code.
C13_DeleteRemovesRecord ==
    [][/\ \A r \in Requests :
            /\ (args[r].op = "delete" /\ pc[r] = "deleteOne" /\ pc'[r] = "done")
               => (/\ res'[r].status = 200
                   /\ collection' = WithoutCode(collection, toUpperCase(args[r].code)))
            /\ (LookupResolves(r) /\ WithCode(collection, toUpperCase(args[r].code)) = {})
               => (res'[r].status = 404 /\ collection' = collection)
       /\ \A id \in DOMAIN collection' \ DOMAIN collection :
            \E r \in Requests :
               /\ args[r].op \in {"generate", "upload"}
               /\ pc[r] = "save" /\ pc'[r] = "done" /\ res'[r].status = 200
               /\ loc[r].dataEntry._id = id]_vars

\* A record was deleted, and a later ingestion was issued the freed code: the
\* code is held by the new record, the deleted one is absent.
C13_Witness ==
    \E r1, r2 \in Requests :
        /\ args[r1].op = "delete" /\ pc[r1] = "done" /\ res[r1].status = 200
        /\ args[r2].op \in {"generate", "upload"} /\ pc[r2] = "done" /\ res[r2].status = 200
        /\ res[r2].code = toUpperCase(args[r1].code)
        /\ loc[r1].dataEntry._id \notin DOMAIN collection
        /\ loc[r2].dataEntry._id \in DOMAIN collection
        /\ loc[r2].dataEntry._id # loc[r1].dataEntry._id

\* The item index of slot r's download request resolves to no item of the
\* stored record it addresses: it is not a number, negative, or too large.
TargetUnresolved(r) ==
    /\ Target(r) # NullDoc
    /\ \/ loc[r].itemIndex.nan
       \/ loc[r].itemIndex.n < 0
       \/ loc[r].itemIndex.n >= Len(Target(r).items)

\* C14: a download request whose item index resolves to no item of the record
\* is answered 404 with no payload and changes no item and no record.
C14_BadIndexNotFound ==
    [][\A r \in Requests :
          (DownloadReads(r) /\ TargetUnresolved(r))
          => /\ pc'[r] = "done"
             /\ res'[r].status = 404
             /\ res'[r].data = Undefined
             /\ collection' = collection]_vars

\* C15: an upload in which a file exceeds the size limit is answered 413 and
\* creates no record.
C15_TooLargeRejected ==
    \A r \in Requests :
        (pc[r] = "done" /\ args[r].op = "upload" /\ LimitFileSize(args[r].files))
        => /\ res[r].status = 413
           /\ loc[r].dataEntry = NullDoc

\* C16: for every item of every stored record, downloaded is true exactly when
\* downloadedAt is set, and fileName, fileType and fileSize are set exactly
\* when isFile is true.
C16_ItemInvariant ==
    \A id \in DOMAIN collection :
        \A i \in 1 .. Len(collection[id].items) :
            LET item == collection[id].items[i]
            IN  /\ item.downloaded <=> (item.downloadedAt # UndefinedDate)
                /\ item.isFile <=> (item.fileName # UndefinedStr)
                /\ item.isFile <=> (item.fileType # UndefinedStr)
                /\ item.isFile <=> (item.fileSize # UndefinedNum)

\* The store holds a downloaded item and an item not downloaded, one of them a
\* file item.
C16_Witness ==
    \E id1, id2 \in DOMAIN collection :
        \E i \in 1 .. Len(collection[id1].items), j \in 1 .. Len(collection[id2].items) :
            /\ collection[id1].items[i].downloaded
            /\ collection[id1].items[i].downloadedAt # UndefinedDate
            /\ ~collection[id2].items[j].downloaded
            /\ (collection[id1].items[i].isFile \/ collection[id2].items[j].isFile)
            /\ (~collection[id1].items[i].isFile \/ ~collection[id2].items[j].isFile)

\* Slot r's download request was answered with the bytes of a file item.
DeliveredFile(r) ==
    /\ pc[r] = "done" /\ args[r].op = "download"
    /\ res[r].status = 200 /\ res[r].type = "file"

\* C17: no verify or get response carries the payload of a file item (its data
\* field is null), and the bytes of a file item are delivered by at most one
\* download request.
C17_FilePayloadOnlyByConsume ==
    /\ \A r \in Requests :
          (pc[r] = "done" /\ args[r].op \in {"verify", "get"} /\ res[r].status = 200)
          => \A k \in 1 .. Len(res[r].items) :
                res[r].items[k].isFile => res[r].items[k].data = Null
    /\ \A r1, r2 \in Requests :
          (/\ DeliveredFile(r1) /\ DeliveredFile(r2)
           /\ loc[r1].dataEntry._id = loc[r2].dataEntry._id
           /\ loc[r1].itemIndex = loc[r2].itemIndex)
          => r1 = r2

\* Slot r's ingestion loop redraws, and the code drawn is one no record holds.
FreshDraw(r) ==
    /\ GenerateCodeFind(r) \/ UploadFileFind(r)
    /\ pc'[r] = "findOne"
    /\ findOne(collection, loc'[r].code) = NullDoc

\* Every awaited store call resolves, so every handler takes its next step; and
\* Math.random() is fair: a loop that redraws again and again draws an unused
\* code again and again, as long as one exists.
Fairness ==
    \A r \in Requests : WF_vars(Step(r)) /\ SF_vars(FreshDraw(r))

\* Requests are handled concurrently, as in Next, each operation over one
\* input: one request body, and the first code and first item index for the
\* requests that look a record up.
NextFair ==
    \E r \in Requests :
        \/ GenerateCodeStart(r, Hello, NoList)
        \/ UploadFileStart(r, <<FileA>>)
        \/ VerifyCodeStart(r, generateCode(0))
        \/ GetDataStart(r, generateCode(0))
        \/ DownloadStart(r, generateCode(0), <<"0">>)
        \/ DeleteStart(r, generateCode(0))
        \/ Step(r)

SpecFair == Init /\ [][NextFair]_vars /\ Fairness

\* Every code of the code space is held by a stored record.
CodeSpaceExhausted ==
    Cardinality({collection[id].code : id \in DOMAIN collection}) = CodeSpan

\* Slot r's ingestion is in its draw-and-check loop.
InLoop(r) == pc[r] = "findOne" /\ args[r].op \in {"generate", "upload"}

\* C18: every request that arrived is eventually answered, except that an
\* ingestion may stay in its draw-and-check loop while every code of the code
\* space is in use.
C18_EveryRequestReturns ==
    \A r \in Requests :
        (pc[r] \notin {"idle", "done"})
        ~> (pc[r] = "done" \/ (InLoop(r) /\ CodeSpaceExhausted))

\* An ingestion holds a candidate code that is in use while another code of
\* the code space is free: its loop has to draw again.
C18_Witness ==
    \E r \in Requests :
        /\ InLoop(r)
        /\ findOne(collection, loc[r].code) # NullDoc
        /\ ~CodeSpaceExhausted

\* Slot r's request of kind op was answered 200 for a record that is still stored.
Succeeded(r, op) ==
    /\ pc[r] = "done" /\ args[r].op = op /\ res[r].status = 200
    /\ loc[r].dataEntry._id \in DOMAIN collection

\* C19: no update is lost between overlapping verify and download requests on
\* one record: while the record is stored, every item whose download returned
\* the payload is downloaded in the store, and the record is verified if a
\* verify request succeeded.
C19_NoLostUpdate ==
    \A r \in Requests :
        /\ Succeeded(r, "download")
           => collection[loc[r].dataEntry._id].items[loc[r].itemIndex.n + 1].downloaded
        /\ Succeeded(r, "verify")
           => collection[loc[r].dataEntry._id].verified

\* A verify and a download of one record overlapped: each read the record
\* before the other saved, both were answered 200, and the store has both the
\* verified flag and the item's downloaded flag.
C19_Witness ==
    \E r1, r2 \in Requests :
        /\ Succeeded(r1, "verify") /\ Succeeded(r2, "download")
        /\ loc[r1].dataEntry._id = loc[r2].dataEntry._id
        /\ ~loc[r2].dataEntry.verified
        /\ ~loc[r1].dataEntry.items[loc[r2].itemIndex.n + 1].downloaded
        /\ collection[loc[r1].dataEntry._id].verified
        /\ collection[loc[r1].dataEntry._id].items[loc[r2].itemIndex.n + 1].downloaded

\* Slot r's ingestion stores its record in this step.
Ingests(r) ==
    /\ pc[r] = "save" /\ args[r].op \in {"generate", "upload"}
    /\ pc'[r] = "done" /\ res'[r].status = 200

\* Slot r's download is answered with the payload in this step.
Delivers(r) ==
    /\ pc[r] = "save" /\ args[r].op = "download"
    /\ pc'[r] = "done" /\ res'[r].status = 200

\* C20: a code that no record holds is held again only through the save of an
\* ingestion that drew it, never through the save of a verify or a download
\* that read the record before it was deleted; and a download is answered with
\* the payload only in a step that writes its downloaded flag to a record that
\* is stored when the write happens.
C20_DeletedStaysDeleted ==
    [][/\ \A c \in Codes :
            (findOne(collection, c) = NullDoc /\ findOne(collection', c) # NullDoc)
            => \E r \in Requests : Ingests(r) /\ loc[r].code = c
       /\ \A id \in DOMAIN collection' :
            id \notin DOMAIN collection
            => \E r \in Requests : Ingests(r) /\ loc[r].dataEntry._id = id
       /\ \A r \in Requests :
            Delivers(r)
            => LET id == loc[r].dataEntry._id
               IN  /\ id \in DOMAIN collection
                   /\ id \in DOMAIN collection'
                   /\ collection'[id].items[loc[r].itemIndex.n + 1].downloaded]_vars

\* A delete removed the record after a verify or a download had read it; that
\* request's save was then answered 500 and the code is still unused.
C20_Witness ==
    \E r1, r2 \in Requests :
        /\ pc[r1] = "done" /\ args[r1].op = "delete" /\ res[r1].status = 200
        /\ pc[r2] = "done" /\ args[r2].op \in {"verify", "download"}
        /\ res[r2].status = 500
        /\ loc[r2].dataEntry # NullDoc
        /\ loc[r2].dataEntry.code = args[r1].code
        /\ findOne(collection, args[r1].code) = NullDoc
====
